---- MODULE Spec2Model ----
(***************************************************************************)
(* Model of the org-mode lexer of pygments_orgmode_lexer/lexer.py.         *)
(*                                                                         *)
(* A text is a sequence of one-character strings.  Offsets are 0-based as  *)
(* in Python: the character at offset p of t is t[p+1], and a span <<s,e>> *)
(* is the half-open range s..e-1.  Token kinds are the Pygments token      *)
(* types the class OrgMode binds its symbolic names to.                    *)
(***************************************************************************)
EXTENDS Integers, Sequences, FiniteSets, TLC

VARIABLES text, registry, pos, statestack, out, done, error, last

vars == <<text, registry, pos, statestack, out, done, error, last>>

----------------------------------------------------------------------------
(* Characters                                                              *)

LowerAlpha == <<"a","b","c","d","e","f","g","h","i","j","k","l","m",
                "n","o","p","q","r","s","t","u","v","w","x","y","z">>
UpperAlpha == <<"A","B","C","D","E","F","G","H","I","J","K","L","M",
                "N","O","P","Q","R","S","T","U","V","W","X","Y","Z">>
Digits == {"0","1","2","3","4","5","6","7","8","9"}
Lowers == {LowerAlpha[i] : i \in 1..26}
Uppers == {UpperAlpha[i] : i \in 1..26}

\* str.upper() / str.lower() on one character
UpperMap == [c \in Lowers |-> UpperAlpha[CHOOSE i \in 1..26 : LowerAlpha[i] = c]]
LowerMap == [c \in Uppers |-> LowerAlpha[CHOOSE i \in 1..26 : UpperAlpha[i] = c]]
upper(c) == IF c \in Lowers THEN UpperMap[c] ELSE c
lower(c) == IF c \in Uppers THEN LowerMap[c] ELSE c
Upper(s) == [i \in 1..Len(s) |-> upper(s[i])]
Lower(s) == [i \in 1..Len(s) |-> lower(s[i])]

\* character classes of the patterns, under re.IGNORECASE
Alnum == Lowers \cup Uppers \cup Digits        \* [a-zA-Z0-9]
AlnumSp == Alnum \cup {" "}                    \* [a-zA-Z0-9 ]
LangCh == Lowers \cup Uppers \cup {"-"}        \* [a-z\-]
WS == {" ", "\t", "\n", "\r", "\f"}            \* \s

Max(S) == CHOOSE x \in S : \A y \in S : y <= x
Min(S) == CHOOSE x \in S : \A y \in S : x <= y

Ch(t, p) == t[p + 1]
Slice(t, s, e) == SubSeq(t, s + 1, e)

\* re.MULTILINE: ^ matches at offset 0 and right after a newline
Bol(t, p) == p = 0 \/ t[p] = "\n"

\* end of the longest run of characters of class S starting at p (greedy X*)
RunEnd(t, p, S) ==
  Max({e \in p..Len(t) : \A i \in p..(e - 1) : Ch(t, i) \in S})

\* offset of the first c at or after p, -1 when there is none (lazy .*?c)
Find(t, c, p) ==
  LET I == {i \in p..(Len(t) - 1) : Ch(t, i) = c}
  IN IF I = {} THEN -1 ELSE Min(I)

\* a literal matched case-insensitively at p
Lit(t, p, w) ==
  /\ p + Len(w) <= Len(t)
  /\ \A i \in 1..Len(w) : upper(Ch(t, p + i - 1)) = upper(w[i])

\* first alternative of a literal alternation (a|b|c) matching at p: its
\* length, 0 when none matches
AltLen(t, p, ws) ==
  LET K == {k \in 1..Len(ws) : Lit(t, p, ws[k])}
  IN IF K = {} THEN 0 ELSE Len(ws[Min(K)])

----------------------------------------------------------------------------
(* Literals of the patterns                                                *)

wTODO == <<"T","O","D","O">>
wDONE == <<"D","O","N","E">>
wWAIT == <<"W","A","I","T">>
wCANCELLED == <<"C","A","N","C","E","L","L","E","D">>
wBEGIN == <<"#","+","B","E","G","I","N","_">>
wEND == <<"#","+","E","N","D","_">>
wBEGINSRC == wBEGIN \o <<"S","R","C">>
wENDSRC == wEND \o <<"S","R","C">>
wQUOTE == <<"Q","U","O","T","E">>
wEXAMPLE == <<"E","X","A","M","P","L","E">>
wVERSE == <<"V","E","R","S","E">>
wSRC == <<"S","R","C">>
wCLOSED == <<"C","L","O","S","E","D">>
wSCHEDULED == <<"S","C","H","E","D","U","L","E","D">>
wDEADLINE == <<"D","E","A","D","L","I","N","E">>

TodoWords == <<wTODO, wDONE, wWAIT, wCANCELLED>>
BlockWords == <<wQUOTE, wEXAMPLE, wVERSE, wSRC>>
SchedWords == <<wCLOSED, wSCHEDULED, wDEADLINE>>

----------------------------------------------------------------------------
(* Match objects: ok, the end offset, and the spans of the groups; a group *)
(* that did not take part in the match has the span <<-1,-1>>.             *)

NoMatch == [ok |-> FALSE, end |-> -1, g |-> <<>>]
Hit(e, gs) == [ok |-> TRUE, end |-> e, g |-> gs]
NoGroup == <<-1, -1>>

----------------------------------------------------------------------------
(* The patterns of the table OrgModeLexer.tokens, compiled with            *)
(* flags = re.MULTILINE | re.DOTALL | re.IGNORECASE and matched anchored   *)
(* at p.  Each operator returns the match the backtracking matcher finds   *)
(* first: greedy quantifiers take the longest run that still lets the rest *)
(* match, lazy ones the shortest.                                          *)

NL(t, from) == {i \in from..(Len(t) - 1) : Ch(t, i) = "\n"}

\* ^(,?[*]{1,} *)(TODO|DONE|WAIT|CANCELLED)?(.+?)(\n)
\* A candidate <<k, s, w>> is the end of the stars, the end of the spaces
\* and the length of the keyword; the title starts at s + w, has at least
\* one character (any, newline included) and ends at the next newline.
re_heading(t, p) ==
  IF ~Bol(t, p) THEN NoMatch ELSE
  LET c == IF p < Len(t) /\ Ch(t, p) = "," THEN p + 1 ELSE p
      kmax == RunEnd(t, c, {"*"})
      Cands == {x \in UNION {UNION {{<<k, s, w>> : w \in {0, AltLen(t, s, TodoWords)}}
                                      : s \in k..RunEnd(t, k, {" "})}
                                : k \in (c + 1)..kmax}
                 : NL(t, x[2] + x[3] + 1) # {}}
      Before(x, y) == \/ x[1] > y[1]
                      \/ x[1] = y[1] /\ x[2] > y[2]
                      \/ x[1] = y[1] /\ x[2] = y[2] /\ x[3] >= y[3]
  IN IF Cands = {} THEN NoMatch ELSE
     LET b == CHOOSE x \in Cands : \A y \in Cands : Before(x, y)
         q == b[2] + b[3]
         n == Min(NL(t, q + 1))
     IN Hit(n + 1, << <<p, b[2]>>,
                      IF b[3] > 0 THEN <<b[2], q>> ELSE NoGroup,
                      <<q, n>>,
                      <<n, n + 1>> >>)

\* ^( *#\+BEGIN_SRC +)([a-z\-]+)(.*?\n)(.*?\n)(#\+END_SRC.*?\n)
\* A candidate <<n3, n4>> is the newline ending group 3 and the newline
\* ending group 4; the lazy groups take the first candidate in that order.
re_source_block(t, p) ==
  IF ~Bol(t, p) THEN NoMatch ELSE
  LET a == RunEnd(t, p, {" "})
      b == a + Len(wBEGINSRC)
      c == RunEnd(t, b, {" "})
      d == RunEnd(t, c, LangCh)
  IN IF ~(Lit(t, a, wBEGINSRC) /\ c > b /\ d > c) THEN NoMatch ELSE
     LET Cands == {x \in NL(t, d) \X NL(t, d) :
                     /\ x[2] > x[1]
                     /\ Lit(t, x[2] + 1, wENDSRC)
                     /\ NL(t, x[2] + 1 + Len(wENDSRC)) # {}}
     IN IF Cands = {} THEN NoMatch ELSE
        LET n3 == Min({x[1] : x \in Cands})
            n4 == Min({x[2] : x \in {y \in Cands : y[1] = n3}})
            n5 == Min(NL(t, n4 + 1 + Len(wENDSRC)))
        IN Hit(n5 + 1, << <<p, c>>, <<c, d>>, <<d, n3 + 1>>,
                          <<n3 + 1, n4 + 1>>, <<n4 + 1, n5 + 1>> >>)

\* ^ *#\+<prefix>(QUOTE|EXAMPLE|VERSE|SRC).*?\n   (BEGIN_ and END_ fences)
re_fence(t, p, prefix) ==
  IF ~Bol(t, p) THEN NoMatch ELSE
  LET a == RunEnd(t, p, {" "})
      b == a + Len(prefix)
      w == AltLen(t, b, BlockWords)
  IN IF Lit(t, a, prefix) /\ w > 0 /\ NL(t, b + w) # {}
     THEN Hit(Min(NL(t, b + w)) + 1, <<>>) ELSE NoMatch

\* ^( *#\+[a-zA-Z0-9].*?)(\n)
re_metadata(t, p) ==
  IF ~Bol(t, p) THEN NoMatch ELSE
  LET a == RunEnd(t, p, {" "})
  IN IF /\ Lit(t, a, <<"#", "+">>)
        /\ a + 2 < Len(t) /\ Ch(t, a + 2) \in Alnum
        /\ NL(t, a + 3) # {}
     THEN LET n == Min(NL(t, a + 3))
          IN Hit(n + 1, << <<p, n>>, <<n, n + 1>> >>)
     ELSE NoMatch

\* ^( *:[a-zA-Z0-9].*?:.*?)(\n)
re_drawer(t, p) ==
  IF ~Bol(t, p) THEN NoMatch ELSE
  LET a == RunEnd(t, p, {" "})
      c == Find(t, ":", a + 2)
  IN IF /\ a + 1 < Len(t) /\ Ch(t, a) = ":" /\ Ch(t, a + 1) \in Alnum
        /\ c # -1 /\ NL(t, c + 1) # {}
     THEN LET n == Min(NL(t, c + 1))
          IN Hit(n + 1, << <<p, n>>, <<n, n + 1>> >>)
     ELSE NoMatch

\* ^ *(CLOSED|SCHEDULED|DEADLINE)
re_scheduled(t, p) ==
  IF ~Bol(t, p) THEN NoMatch ELSE
  LET a == RunEnd(t, p, {" "})
      w == AltLen(t, a, SchedWords)
  IN IF w > 0 THEN Hit(a + w, << <<a, a + w>> >>) ELSE NoMatch

\* ^\s*[-+]\s
re_ulist(t, p) ==
  IF ~Bol(t, p) THEN NoMatch ELSE
  LET a == RunEnd(t, p, WS)
  IN IF a + 1 < Len(t) /\ Ch(t, a) \in {"-", "+"} /\ Ch(t, a + 1) \in WS
     THEN Hit(a + 2, <<>>) ELSE NoMatch

\* ^\s*[0-9]+\.\s
re_olist(t, p) ==
  IF ~Bol(t, p) THEN NoMatch ELSE
  LET a == RunEnd(t, p, WS)
      d == RunEnd(t, a, Digits)
  IN IF d > a /\ d + 1 < Len(t) /\ Ch(t, d) = "." /\ Ch(t, d + 1) \in WS
     THEN Hit(d + 2, <<>>) ELSE NoMatch

\* \\.
re_escape(t, p) ==
  IF p + 1 < Len(t) /\ Ch(t, p) = "\\" THEN Hit(p + 2, <<>>) ELSE NoMatch

\* (=)(.+?)(=)  and  ([*])(.+?)([*])
re_span(t, p, c) ==
  IF p < Len(t) /\ Ch(t, p) = c /\ Find(t, c, p + 2) # -1
  THEN LET n == Find(t, c, p + 2)
       IN Hit(n + 1, << <<p, p + 1>>, <<p + 1, n>>, <<n, n + 1>> >>)
  ELSE NoMatch

\* [<\[]....-..-.. ... ..:..[\]>]
TimestampLen == 22
re_timestamp(t, p) ==
  IF /\ p + TimestampLen <= Len(t)
     /\ Ch(t, p) \in {"<", "["}
     /\ Ch(t, p + 5) = "-" /\ Ch(t, p + 8) = "-"
     /\ Ch(t, p + 11) = " " /\ Ch(t, p + 15) = " "
     /\ Ch(t, p + 18) = ":"
     /\ Ch(t, p + 21) \in {"]", ">"}
  THEN Hit(p + TimestampLen, <<>>) ELSE NoMatch

\* re_words with * for +: [a-zA-Z0-9 ]* also matches the empty text
re_words_star(t, p) == Hit(RunEnd(t, p, AlnumSp), <<>>)

\* [a-zA-Z0-9 ]+
re_words(t, p) ==
  LET e == RunEnd(t, p, AlnumSp)
  IN IF e > p THEN Hit(e, <<>>) ELSE NoMatch

\* \n
re_newline(t, p) ==
  IF p < Len(t) /\ Ch(t, p) = "\n" THEN Hit(p + 1, <<>>) ELSE NoMatch

\* re_any compiled without re.DOTALL: . stops at a newline
re_any_line(t, p) ==
  IF p < Len(t) /\ Ch(t, p) # "\n" THEN Hit(p + 1, <<>>) ELSE NoMatch

\* .   (re.DOTALL: the newline included)
re_any(t, p) ==
  IF p < Len(t) THEN Hit(p + 1, <<>>) ELSE NoMatch

\* TODO, DONE, WAIT, CANCELLED of the state 'todo'
re_word(t, p, w) ==
  IF Lit(t, p, w) THEN Hit(p + Len(w), <<>>) ELSE NoMatch

----------------------------------------------------------------------------
(* Token kinds: class OrgMode, and the Pygments types used directly        *)

Markup == "Keyword"
Block == "Comment.Preproc"
Heading1 == "Keyword.Namespace"
Heading2 == "Keyword"
Heading3 == "Name.Class"
Heading4 == "Keyword.Namespace"
HeadingRest == "Literal.String"
MetaData == "Comment.Preproc"
Drawer == "Comment.Multiline"
TodoActive == "Keyword.Declaration"
TodoPending == "Keyword.Pseudo"
TodoTerminal == "Keyword.Reserved"
Timestamp == "Name.Variable.Class"
Text == "Text"
StringEscape == "Literal.String.Escape"
GenericEmph == "Generic.Emph"
GenericStrong == "Generic.Strong"
Error == "Error"

Tok(o, k, s) == [offset |-> o, kind |-> k, text |-> s]

\* match.group(i), match.start(i)
group(t, m, i) == Slice(t, m.g[i][1], m.g[i][2])
start(m, i) == m.g[i][1]

Count(s, c) == Cardinality({i \in 1..Len(s) : s[i] = c})

----------------------------------------------------------------------------
(* OrgMode.heading                                                         *)

levels == <<Heading1, Heading2, Heading3, Heading4, HeadingRest>>

\* level_index from the length of the marker instead of its stars
level_index_len(level) == Len(level) - 1

level_index(level) == Count(level, "*") - 1

heading_token(level) ==
  levels[(IF level_index(level) < Len(levels) - 1
          THEN level_index(level) ELSE Len(levels) - 1) + 1]

\* todo_token looking the keyword up as captured, without upper()
todo_token_exact(todo) ==
  CASE todo = wTODO -> TodoActive
    [] todo = wDONE -> TodoTerminal
    [] todo = wWAIT -> TodoPending
    [] todo = wCANCELLED -> TodoTerminal
    [] OTHER -> TodoActive

\* todo_tokens.get(todo.upper(), OrgMode.TodoActive)
todo_token(todo) ==
  LET key == Upper(todo)
  IN CASE key = wTODO -> TodoActive
       [] key = wDONE -> TodoTerminal
       [] key = wWAIT -> TodoPending
       [] key = wCANCELLED -> TodoTerminal
       [] OTHER -> TodoActive

\* heading yielding the title at the keyword's start, match.start(2)
heading_title_at_keyword(t, p, m) ==
  LET level == group(t, m, 1)
      name == group(t, m, 3)
      end == group(t, m, 4)
  IN <<Tok(p, heading_token(level), level)>>
     \o (IF m.g[2] # NoGroup
         THEN <<Tok(start(m, 2), todo_token(group(t, m, 2)), group(t, m, 2))>>
         ELSE <<>>)
     \o <<Tok(start(m, 2), heading_token(level), name),
          Tok(start(m, 4), Text, end)>>

heading(t, p, m) ==
  LET level == group(t, m, 1)
      name == group(t, m, 3)
      end == group(t, m, 4)
  IN <<Tok(p, heading_token(level), level)>>
     \o (IF m.g[2] # NoGroup
         THEN <<Tok(start(m, 2), todo_token(group(t, m, 2)), group(t, m, 2))>>
         ELSE <<>>)
     \o <<Tok(start(m, 3), heading_token(level), name),
          Tok(start(m, 4), Text, end)>>

----------------------------------------------------------------------------
(* OrgMode.source_block and the sub-language registry                      *)

\* LEXER_ALIASES.get(code_type, code_type)
LEXER_ALIASES(code_type) ==
  IF code_type = <<"c", "o", "n", "f">> THEN <<"i", "n", "i">> ELSE code_type

\* get_lexer_by_name compares the lower-cased name with the aliases of the
\* lexers the registry holds; FALSE stands for ClassNotFound
get_lexer_by_name(reg, alias) == Lower(alias) \in reg

\* lexer.get_tokens_unprocessed(block) of a resolved sub-lexer: tokens that
\* cover block from offset 0, with offsets relative to block.  The sub-lexer
\* is not part of this program; it cuts the block into chunks of n
\* characters and gives them kinds of its own, alternating from the k-th.
SubKinds == <<"Name", "Operator">>
MaxChunk == 2
Chunks(block, n, k) ==
  [j \in 1..((Len(block) + n - 1) \div n) |->
     Tok((j - 1) * n,
         SubKinds[((j + k) % 2) + 1],
         Slice(block, (j - 1) * n,
               IF j * n < Len(block) THEN j * n ELSE Len(block)))]
get_tokens_unprocessed(block) ==
  {Chunks(block, n, k) : n \in (1..MaxChunk) \cup {Len(block)}, k \in 0..1}

\* source_block with an opening token that lacks the rest of the fence line
source_block_short_fence(t, p, m, found, sub) ==
  <<Tok(p, Block, group(t, m, 1) \o group(t, m, 2))>>
  \o (IF found THEN sub ELSE <<Tok(start(m, 4), Block, group(t, m, 4))>>)
  \o <<Tok(start(m, 5), Block, group(t, m, 5))>>

\* source_block with the fallback token at the start of the fence's rest,
\* match.start(3)
source_block_fallback_at_3(t, p, m, found, sub) ==
  <<Tok(p, Block, group(t, m, 1) \o group(t, m, 2) \o group(t, m, 3))>>
  \o (IF found THEN sub ELSE <<Tok(start(m, 3), Block, group(t, m, 4))>>)
  \o <<Tok(start(m, 5), Block, group(t, m, 5))>>

\* the tokens source_block yields; found is the outcome of the lookup and
\* sub the token list the resolved sub-lexer returned
source_block(t, p, m, found, sub) ==
  LET src_line_1 == group(t, m, 1)
      code_type == group(t, m, 2)
      src_line_2 == group(t, m, 3)
      block == group(t, m, 4)
      end_line == group(t, m, 5)
  IN <<Tok(p, Block, src_line_1 \o code_type \o src_line_2)>>
     \o (IF found THEN sub ELSE <<Tok(start(m, 4), Block, block)>>)
     \o <<Tok(start(m, 5), Block, end_line)>>

----------------------------------------------------------------------------
(* bygroups(...) and a plain token type as the action of a rule            *)

\* bygroups that stops one group short
RECURSIVE bygroups_short(_, _, _, _)
bygroups_short(t, m, kinds, i) ==
  IF i >= Len(kinds) THEN <<>>
  ELSE (IF m.g[i][2] > m.g[i][1]
        THEN <<Tok(start(m, i), kinds[i], group(t, m, i))>> ELSE <<>>)
       \o bygroups_short(t, m, kinds, i + 1)

RECURSIVE bygroups(_, _, _, _)
bygroups(t, m, kinds, i) ==
  IF i > Len(kinds) THEN <<>>
  ELSE (IF m.g[i][2] > m.g[i][1]
        THEN <<Tok(start(m, i), kinds[i], group(t, m, i))>> ELSE <<>>)
       \o bygroups(t, m, kinds, i + 1)

----------------------------------------------------------------------------
(* OrgModeLexer.tokens                                                     *)

\* from ._compat import encode_filename as state: the name of a state
state(name) == name

\* a rule: pattern, action (a token type, bygroups(...) or a callback) and
\* the new state ("" when the rule has none)
Rule(pat, type, kinds, new) ==
  [pat |-> pat, type |-> type, kinds |-> kinds, new |-> new]

\* the table with the escape rule listed after the fallback
inline_escape_last ==
  << Rule("emph", "bygroups", <<Markup, GenericEmph, Markup>>, ""),
     Rule("strong", "bygroups", <<Markup, GenericStrong, Markup>>, ""),
     Rule("timestamp", "token", <<Timestamp>>, ""),
     Rule("words", "token", <<Text>>, ""),
     Rule("any", "token", <<Text>>, ""),
     Rule("escape", "token", <<StringEscape>>, "") >>

inline ==
  << Rule("escape", "token", <<StringEscape>>, ""),
     Rule("emph", "bygroups", <<Markup, GenericEmph, Markup>>, ""),
     Rule("strong", "bygroups", <<Markup, GenericStrong, Markup>>, ""),
     Rule("timestamp", "token", <<Timestamp>>, ""),
     Rule("words", "token", <<Text>>, ""),
     Rule("any", "token", <<Text>>, "") >>

\* the table with the metadata rule listed before the block rules
root_metadata_first ==
  << Rule("heading", "heading", <<>>, ""),
     Rule("metadata", "bygroups", <<MetaData, Text>>, ""),
     Rule("source_block", "source_block", <<>>, ""),
     Rule("block_begin", "token", <<Block>>, state("block")),
     Rule("drawer", "bygroups", <<Drawer, Text>>, ""),
     Rule("scheduled", "token", <<Drawer>>, state("scheduled")),
     Rule("ulist", "token", <<Markup>>, ""),
     Rule("olist", "token", <<Markup>>, "") >>
  \o inline

root ==
  << Rule("heading", "heading", <<>>, ""),
     Rule("source_block", "source_block", <<>>, ""),
     Rule("block_begin", "token", <<Block>>, state("block")),
     Rule("metadata", "bygroups", <<MetaData, Text>>, ""),
     Rule("drawer", "bygroups", <<Drawer, Text>>, ""),
     Rule("scheduled", "token", <<Drawer>>, state("scheduled")),
     Rule("ulist", "token", <<Markup>>, ""),
     Rule("olist", "token", <<Markup>>, "") >>
  \o inline

todo ==
  << Rule("TODO", "token", <<TodoActive>>, state("#pop")),
     Rule("DONE", "token", <<TodoTerminal>>, state("#pop")),
     Rule("WAIT", "token", <<TodoPending>>, state("#pop")),
     Rule("CANCELLED", "token", <<TodoTerminal>>, state("#pop")) >>

\* the table with a newline that enters root instead of popping
scheduled_newline_root ==
  << Rule("timestamp", "token", <<Timestamp>>, ""),
     Rule("words", "token", <<Drawer>>, ""),
     Rule("newline", "token", <<Text>>, state("root")),
     Rule("any", "token", <<Drawer>>, "") >>

\* the table with a run rule of another kind than the fallback
scheduled_words_text ==
  << Rule("timestamp", "token", <<Timestamp>>, ""),
     Rule("words", "token", <<Text>>, ""),
     Rule("newline", "token", <<Text>>, state("#pop")),
     Rule("any", "token", <<Drawer>>, "") >>

scheduled ==
  << Rule("timestamp", "token", <<Timestamp>>, ""),
     Rule("words", "token", <<Drawer>>, ""),
     Rule("newline", "token", <<Text>>, state("#pop")),
     Rule("any", "token", <<Drawer>>, "") >>

\* the table with a newline that pops, as in the scheduled state
block_newline_pops ==
  << Rule("block_end", "token", <<Block>>, state("#pop")),
     Rule("newline", "token", <<Block>>, state("#pop")),
     Rule("words", "token", <<Block>>, ""),
     Rule("any", "token", <<Block>>, "") >>

\* the table with a newline of kind Text, as in the scheduled state
block_newline_text ==
  << Rule("block_end", "token", <<Block>>, state("#pop")),
     Rule("newline", "token", <<Text>>, ""),
     Rule("words", "token", <<Block>>, ""),
     Rule("any", "token", <<Block>>, "") >>

block ==
  << Rule("block_end", "token", <<Block>>, state("#pop")),
     Rule("newline", "token", <<Block>>, ""),
     Rule("words", "token", <<Block>>, ""),
     Rule("any", "token", <<Block>>, "") >>

States == {"root", "todo", "scheduled", "inline", "block"}

tokens ==
  [s \in States |->
     CASE s = state("root") -> root
       [] s = state("todo") -> todo
       [] s = state("scheduled") -> scheduled
       [] s = state("inline") -> inline
       [] s = state("block") -> block]

\* rexmatch(text, pos) of the rule's pattern
Match(pat, t, p) ==
  CASE pat = "heading" -> re_heading(t, p)
    [] pat = "source_block" -> re_source_block(t, p)
    [] pat = "block_begin" -> re_fence(t, p, wBEGIN)
    [] pat = "block_end" -> re_fence(t, p, wEND)
    [] pat = "metadata" -> re_metadata(t, p)
    [] pat = "drawer" -> re_drawer(t, p)
    [] pat = "scheduled" -> re_scheduled(t, p)
    [] pat = "ulist" -> re_ulist(t, p)
    [] pat = "olist" -> re_olist(t, p)
    [] pat = "escape" -> re_escape(t, p)
    [] pat = "emph" -> re_span(t, p, "=")
    [] pat = "strong" -> re_span(t, p, "*")
    [] pat = "timestamp" -> re_timestamp(t, p)
    [] pat = "words" -> re_words(t, p)
    [] pat = "newline" -> re_newline(t, p)
    [] pat = "any" -> re_any(t, p)
    [] pat = "TODO" -> re_word(t, p, wTODO)
    [] pat = "DONE" -> re_word(t, p, wDONE)
    [] pat = "WAIT" -> re_word(t, p, wWAIT)
    [] pat = "CANCELLED" -> re_word(t, p, wCANCELLED)

----------------------------------------------------------------------------
(* The scanner: RegexLexer.get_tokens_unprocessed driving the table        *)

Top(stack) == stack[Len(stack)]

\* index of the first rule of the state whose pattern matches at p, trying
\* the rules in the order of the list; 0 when no rule matches
RECURSIVE FirstFrom(_, _, _, _)
FirstFrom(rules, t, p, i) ==
  IF i > Len(rules) THEN 0
  ELSE IF Match(rules[i].pat, t, p).ok THEN i
  ELSE FirstFrom(rules, t, p, i + 1)
FirstRule(st, t, p) == FirstFrom(tokens[st], t, p, 1)

\* the state transition of a rule
NewStack(stack, new) ==
  CASE new = "" -> stack
    [] new = "#pop" -> IF Len(stack) > 1 THEN SubSeq(stack, 1, Len(stack) - 1)
                       ELSE stack
    [] OTHER -> Append(stack, new)

\* the tokens the action of rule r yields for the match m at p
Emit(r, t, p, m, found, sub) ==
  CASE r.type = "token" -> <<Tok(p, r.kinds[1], Slice(t, p, m.end))>>
    [] r.type = "bygroups" -> bygroups(t, m, r.kinds, 1)
    [] r.type = "heading" -> heading(t, p, m)
    [] r.type = "source_block" -> source_block(t, p, m, found, sub)

\* what the lookup of a source block's language gives, and the token lists
\* the step may splice in
Found(r, t, m, reg) ==
  /\ r.type = "source_block"
  /\ get_lexer_by_name(reg, LEXER_ALIASES(group(t, m, 2)))
SubResults(r, t, m, found) ==
  IF found THEN get_tokens_unprocessed(group(t, m, 4)) ELSE {<<>>}

\* last records the latest iteration: the rule applied, the stack and the
\* cursor before it, the match, the number of tokens yielded, and for a
\* source block the outcome of the lookup and the sub-lexer's tokens
NoLast ==
  [rule |-> "", stack |-> <<>>, start |-> 0, m |-> NoMatch, n |-> 0,
   found |-> FALSE, sub |-> <<>>]

\* one iteration of the scanning loop: the first matching rule of the top
\* state yields its tokens, the cursor moves to the end of the match and
\* the rule's state transition is applied.  When no rule matches, a newline
\* resets the stack to root and any other character becomes an Error token.
Step ==
  /\ ~done
  /\ pos < Len(text)
  /\ \E i \in {FirstRule(Top(statestack), text, pos)} :
       IF i = 0
       THEN /\ error' = TRUE
            /\ out' = Append(out, Tok(pos, IF Ch(text, pos) = "\n"
                                           THEN Text ELSE Error,
                                      <<Ch(text, pos)>>))
            /\ statestack' = IF Ch(text, pos) = "\n" THEN <<state("root")>>
                             ELSE statestack
            /\ pos' = pos + 1
            /\ last' = [NoLast EXCEPT !.rule = "nomatch",
                                      !.stack = statestack,
                                      !.start = pos, !.n = 1]
       ELSE \E r \in {tokens[Top(statestack)][i]} :
            \E m \in {Match(r.pat, text, pos)} :
            \E found \in {Found(r, text, m, registry)} :
            \E sub \in SubResults(r, text, m, found) :
            \E toks \in {Emit(r, text, pos, m, found, sub)} :
              /\ out' = out \o toks
              /\ pos' = m.end
              /\ statestack' = NewStack(statestack, r.new)
              /\ last' = [rule |-> r.pat, stack |-> statestack,
                          start |-> pos, m |-> m, n |-> Len(toks),
                          found |-> found, sub |-> sub]
              /\ error' = error
  /\ UNCHANGED <<text, registry, done>>

\* the cursor is at the end of the input: the loop ends
Finish ==
  /\ ~done
  /\ pos >= Len(text)
  /\ done' = TRUE
  /\ UNCHANGED <<text, registry, pos, statestack, out, error, last>>

Next == Step \/ Finish

\* a whole scan over a table tbl as a function of the input: the list of
\* iterations, each with the cursor and the stack before it and the tokens
\* it yields, closed by an entry for the end of the input.  A source block
\* takes one of the sub-lexer's results.
RECURSIVE ScanFrom(_, _, _, _, _)
ScanFrom(tbl, t, reg, p, stack) ==
  IF p >= Len(t)
  THEN << [off |-> p, stack |-> stack, toks |-> <<>>] >>
  ELSE LET i == FirstFrom(tbl[Top(stack)], t, p, 1)
       IN IF i = 0
          THEN << [off |-> p, stack |-> stack,
                   toks |-> << Tok(p, IF Ch(t, p) = "\n" THEN Text ELSE Error,
                                   <<Ch(t, p)>>) >>] >>
               \o ScanFrom(tbl, t, reg, p + 1,
                           IF Ch(t, p) = "\n" THEN <<state("root")>>
                           ELSE stack)
          ELSE LET r == tbl[Top(stack)][i]
                   m == Match(r.pat, t, p)
                   found == Found(r, t, m, reg)
                   sub == CHOOSE x \in SubResults(r, t, m, found) : TRUE
               IN << [off |-> p, stack |-> stack,
                      toks |-> Emit(r, t, p, m, found, sub)] >>
                  \o ScanFrom(tbl, t, reg, m.end, NewStack(stack, r.new))
Scan(tbl, t, reg) == ScanFrom(tbl, t, reg, 0, <<state("root")>>)

----------------------------------------------------------------------------
(* Inputs                                                                  *)

RECURSIVE Cat(_, _)
Cat(F, s) == IF s = <<>> THEN <<>> ELSE F[Head(s)] \o Cat(F, Tail(s))

\* the texts made of at most N of the fragments F
Inputs(F, N) == UNION {{Cat(F, s) : s \in [1..n -> 1..Len(F)]} : n \in 0..N}

InitWith(I, R) ==
  /\ text \in I
  /\ registry \in R
  /\ pos = 0
  /\ statestack = <<state("root")>>
  /\ out = <<>>
  /\ done = FALSE
  /\ error = FALSE
  /\ last = NoLast

----------------------------------------------------------------------------
(* Specifications: the scanner run on texts built from fragments.          *)

fSTAR == <<"*">>
fSP == <<" ">>
fNL == <<"\n">>
fX == <<"x">>
fCOMMA == <<",">>
fEQ == <<"=">>
fBSL == <<"\\">>
fDASH == <<"-", " ">>
fNUM == <<"1", ".", " ">>
fDRAWER == <<":", "a", ":">>
fTodo == wTODO
fDone == <<"d","o","n","e">>
fWait == <<"W","a","i","t">>
fCancelled == wCANCELLED
fQUOTE == wBEGIN \o wQUOTE \o fNL
fENDQUOTE == wEND \o wQUOTE \o fNL
fSCHED == wSCHEDULED
fSTAMP == <<"<","2","0","1","7","-","0","1","-","0","1"," ","M","o","n",
            " ","1","0",":","0","0",">">>
lPY == <<"p","y">>
lINI == <<"i","n","i">>
lCONF == <<"c","o","n","f">>
fSRCPY == wBEGINSRC \o fSP \o lPY \o fNL
fSRCCONF == fSP \o Lower(wBEGINSRC) \o fSP \o fSP \o lCONF \o <<" ","-","n">> \o fNL
fENDSRC == wENDSRC \o fNL
fEndSrcX == Lower(wENDSRC) \o fSP \o fX \o fNL
fXNL == fX \o fNL

fENDVERSE == wEND \o wVERSE \o fNL
fHEADLINE == fSTAR \o fSP \o fX \o fNL
fMETALINE == <<"#", "+", "a">> \o fNL
fEMPH == fEQ \o fX \o fEQ

fSTAMPNL == <<"<","2","0","1","7","-","0","1","-","0","1"," ","M","o","\n",
               " ","1","0",":","0","0",">">>
\* the whole table at work: every state and every rule that can apply; the
\* registry holds py, so that the block tagged py resolves and the one
\* tagged conf does not
MaxFrags == 3
Fragments ==
  << fSTAR, fNL, fX, fEQ, fBSL, fDASH, fNUM, fDRAWER, fQUOTE,
     fSCHED, fSTAMP, fSRCPY, fSRCCONF, fENDSRC >>
Registries == {{lPY}}
Init == InitWith(Inputs(Fragments, MaxFrags), Registries)
Spec == Init /\ [][Next]_vars

\* headings: a marker, then fragments
MaxFragsHeading == 3
Markers == {<<>>, fSTAR, <<"*","*">>, <<"*","*","*">>, <<"*","*","*","*">>}
FragmentsHeading ==
  << fSTAR, fCOMMA, fSP, fTodo, fDone, fWait, fCancelled, fX, fNL >>
InitHeading ==
  InitWith({mk \o r : mk \in Markers,
                      r \in Inputs(FragmentsHeading, MaxFragsHeading)},
           {{}})
SpecHeading == InitHeading /\ [][Next]_vars

\* fenced source blocks, with a registry that knows py or ini
MaxFragsSource == 4
FragmentsSource ==
  << fSRCPY, fSRCCONF, fXNL, fNL, fENDSRC, fEndSrcX, fX >>
RegistriesSource == {{lPY}, {lINI}}
InitSource ==
  InitWith(Inputs(FragmentsSource, MaxFragsSource), RegistriesSource)
SpecSource == InitSource /\ [][Next]_vars

\* termination is checked on runs the scanning loop is sure to continue:
\* the consumer of a complete scan keeps pulling until the loop ends
MaxFragsFair == 2
FragmentsFair == << fSTAR, fNL, fX, fEQ, fQUOTE, fENDQUOTE, fSCHED >>
InitFair == InitWith(Inputs(FragmentsFair, MaxFragsFair), {{}})
SpecFair == InitFair /\ [][Next]_vars /\ WF_vars(Next)

\* generic blocks: an opening fence, lines that root would take for a
\* heading, a metadata line, a drawer, a planning line, a list item or
\* emphasis, and closing fences of the same and of another kind
MaxFragsBlock == 3
FragmentsBlock ==
  << fQUOTE, fENDQUOTE, fENDVERSE, fX, fNL, fHEADLINE, fMETALINE, fDRAWER,
     fSCHED, fDASH, fEMPH >>
InitBlock == InitWith(Inputs(FragmentsBlock, MaxFragsBlock), {{}})
SpecBlock == InitBlock /\ [][Next]_vars

\* inline markup: emphasis, strong and escapes, at line starts and within
\* lines
MaxFragsInline == 3
FragmentsInline == << fSTAR, fEQ, fBSL, fX, fNL, fSP, fEMPH >>
InitInline == InitWith(Inputs(FragmentsInline, MaxFragsInline), {{}})
SpecInline == InitInline /\ [][Next]_vars

\* planning lines: a keyword, timestamps written on one line and across
\* two, other text and newlines
MaxFragsSched == 3
FragmentsSched == << fSCHED, fSTAMP, fSTAMPNL, fX, fSP, fNL >>
InitSched == InitWith(Inputs(FragmentsSched, MaxFragsSched), {{}})
SpecSched == InitSched /\ [][Next]_vars

\* runs of letters, digits and spaces in root, in a planning line and in a
\* block, next to what ends a run
MaxFragsRun == 3
FragmentsRun ==
  << fX, fSP, fNL, fSTAR, fEQ, fNUM, fSCHED, fSTAMP, fQUOTE, fENDQUOTE,
     fSRCPY, fENDSRC >>
InitRun == InitWith(Inputs(FragmentsRun, MaxFragsRun), {{}})
SpecRun == InitRun /\ [][Next]_vars

----------------------------------------------------------------------------
(* Properties                                                              *)

\* the tokens the latest iteration yielded
LastToks == SubSeq(out, Len(out) - last.n + 1, Len(out))

RECURSIVE Join(_)
Join(toks) == IF toks = <<>> THEN <<>> ELSE Head(toks).text \o Join(Tail(toks))

\* the span of the input a token claims by its offset holds the token's text
InPlace(tok) ==
  /\ tok.offset >= 0
  /\ tok.offset + Len(tok.text) <= Len(text)
  /\ tok.text = Slice(text, tok.offset, tok.offset + Len(tok.text))

\* every token starts where the one before it ends
Adjacent(toks) ==
  \A i \in 1..(Len(toks) - 1) :
    toks[i + 1].offset = toks[i].offset + Len(toks[i].text)

\* the line that starts at offset p, its newline included
LineAt(p) == Slice(text, p, Min(NL(text, p)) + 1)

SourceStep == last.rule = "source_block"
HeadingStep == last.rule = "heading"

\* C1 Coverage: when a scan is complete the cursor is at the end of the
\* input and the texts of the tokens emitted, concatenated in emission
\* order, are the input exactly.
Coverage == done => (pos = Len(text) /\ Join(out) = text)

CoverageWitness ==
  /\ done
  /\ SourceStep /\ last.found
  /\ text # <<>>
  /\ Len(out) >= 3
  /\ Join(out) = text

\* C2 Offset monotonicity: the first token has offset 0 and every token
\* starts where the one before it ends.
OffsetMonotonicity ==
  /\ out # <<>> => out[1].offset = 0
  /\ Adjacent(out)

\* C3 Source delegation offsets: every token spliced in from the sub-lexer
\* carries the body's start offset plus its offset within the body.
SourceDelegationOffsets ==
  (SourceStep /\ last.found) =>
    \A j \in 1..Len(last.sub) :
      LastToks[j + 1].offset = start(last.m, 4) + last.sub[j].offset

\* C4 Source delegation structure: a source block whose language resolves
\* yields one Block token with the whole opening-fence line, then the
\* sub-lexer's tokens for the body with their kinds and texts in the
\* sub-lexer's order, then one Block token with the closing-fence line, and
\* leaves the stack [root].
Resolves(name) ==
  (IF name = lCONF THEN lINI ELSE Lower(name)) \in registry
SourceDelegationStructure ==
  (SourceStep /\ Resolves(group(text, last.m, 2))) =>
    LET toks == LastToks
        n == Len(toks)
        open == LineAt(last.start)
        body == Slice(text, last.start + Len(open), pos - Len(toks[n].text))
    IN /\ n = Len(last.sub) + 2
       /\ toks[1] = Tok(last.start, Block, open)
       /\ \A j \in 1..Len(last.sub) :
            /\ toks[j + 1].kind = last.sub[j].kind
            /\ toks[j + 1].text = last.sub[j].text
       /\ last.sub \in get_tokens_unprocessed(body)
       /\ toks[n].kind = Block
       /\ Lit(toks[n].text, 0, wENDSRC)
       /\ NL(toks[n].text, 0) = {Len(toks[n].text) - 1}
       /\ last.stack = <<"root">>
       /\ statestack = <<"root">>

SourceDelegationWitness ==
  /\ SourceStep /\ last.found
  /\ group(text, last.m, 2) = lCONF
  /\ Len(last.sub) > 1
  /\ last.start > 0

\* C5 Unknown-language fallback: a source block whose language the registry
\* does not hold yields exactly three Block tokens, each at its absolute
\* offset: the opening-fence line, the whole body, the closing-fence line;
\* no error is raised.
UnknownLanguageFallback ==
  (SourceStep /\ ~Resolves(group(text, last.m, 2))) =>
    LET toks == LastToks
        open == LineAt(last.start)
    IN /\ Len(toks) = 3
       /\ \A i \in 1..3 : toks[i].kind = Block /\ InPlace(toks[i])
       /\ toks[1].offset = last.start
       /\ toks[1].text = open
       /\ Adjacent(toks)
       /\ toks[3].offset + Len(toks[3].text) = pos
       /\ Lit(toks[3].text, 0, wENDSRC)
       /\ NL(toks[3].text, 0) = {Len(toks[3].text) - 1}
       /\ ~error

UnknownLanguageWitness ==
  /\ SourceStep /\ ~last.found
  /\ group(text, last.m, 2) = lCONF
  /\ last.start > 0
  /\ Len(LastToks[2].text) > 2

\* C6 Totality: the scan never takes the no-rule-matches branch of the
\* loop (which is where error is set), whatever the input and whatever the
\* outcome of a registry lookup, and the empty input yields no token.
Totality ==
  /\ ~error
  /\ last.rule # "nomatch"
  /\ (done /\ text = <<>>) => out = <<>>

TotalityWitness ==
  /\ done
  /\ text # <<>> /\ text[Len(text)] # "\n"
  /\ Top(statestack) = "block"
  /\ Len(out) > 2

\* C7 Termination: every iteration of the loop moves the cursor forward, and
\* every scan reaches the end of the input and stops.
Termination ==
  /\ [][pos' > pos \/ (done' /\ pos' = pos /\ pos = Len(text))]_vars
  /\ <>done

TerminationWitness ==
  /\ done
  /\ pos = Len(text)
  /\ Len(statestack) = 2
  /\ Len(out) > 2

\* C8 Heading level mapping: the kind of the marker token and of the title
\* token is given by the number n of "*" in the marker: 1 -> Heading1,
\* 2 -> Heading2, 3 -> Heading3, 4 -> Heading4, 5 and more -> HeadingRest.
LevelKind(n) ==
  CASE n = 1 -> Heading1
    [] n = 2 -> Heading2
    [] n = 3 -> Heading3
    [] n = 4 -> Heading4
    [] n >= 5 -> HeadingRest
HeadingLevelMapping ==
  HeadingStep =>
    LET toks == LastToks
        marker == toks[1]
        title == toks[Len(toks) - 1]
        n == Count(marker.text, "*")
    IN /\ InPlace(marker) /\ marker.offset = last.start
       /\ n >= 1
       /\ marker.kind = LevelKind(n)
       /\ title.kind = marker.kind

HeadingLevelWitness ==
  /\ HeadingStep
  /\ Count(LastToks[1].text, "*") >= 5
  /\ Len(LastToks[2].text) >= 1
  /\ LastToks[1].kind = HeadingRest

\* C9 TODO normalization: the keyword token of a heading has the captured
\* text in its original case, and its kind is found by comparing that text
\* case-insensitively: TODO -> TodoActive, DONE -> TodoTerminal,
\* WAIT -> TodoPending, CANCELLED -> TodoTerminal, anything else TodoActive.
Same(a, b) == Len(a) = Len(b) /\ Lit(a, 0, b)
TodoNormalization ==
  (HeadingStep /\ last.m.g[2] # NoGroup) =>
    LET kw == LastToks[2]
    IN /\ InPlace(kw)
       /\ kw.offset = start(last.m, 2)
       /\ kw.kind = (IF Same(kw.text, wTODO) THEN TodoActive
                     ELSE IF Same(kw.text, wDONE) THEN TodoTerminal
                     ELSE IF Same(kw.text, wWAIT) THEN TodoPending
                     ELSE IF Same(kw.text, wCANCELLED) THEN TodoTerminal
                     ELSE TodoActive)

TodoNormalizationWitness ==
  /\ HeadingStep
  /\ last.n = 4
  /\ LastToks[2].text = fDone
  /\ LastToks[2].kind = TodoTerminal

\* C10 Heading emission: a heading yields, contiguously from the match
\* start, a marker token, a keyword token exactly when a keyword was
\* captured, a title token and the newline as a Text token: 4 tokens with
\* a keyword and 3 without; the stack is left as it was.
TodoKinds == {TodoActive, TodoPending, TodoTerminal}
HeadingEmission ==
  HeadingStep =>
    LET toks == LastToks
        n == Len(toks)
        kw == last.m.g[2] # NoGroup
    IN /\ n = (IF kw THEN 4 ELSE 3)
       /\ toks[1].offset = last.start
       /\ Adjacent(toks)
       /\ \A i \in 1..n : InPlace(toks[i]) /\ toks[i].text # <<>>
       /\ toks[1].kind \in {levels[i] : i \in 1..Len(levels)}
       /\ (toks[2].kind \in TodoKinds) <=> kw
       /\ toks[n - 1].kind = toks[1].kind
       /\ toks[n] = Tok(pos - 1, Text, <<"\n">>)
       /\ statestack = last.stack

HeadingEmissionWitness ==
  /\ HeadingStep
  /\ last.n = 4
  /\ Len(LastToks[1].text) > 1
  /\ LastToks[2].kind = TodoPending

\* C11 Unterminated block: a block state never leaves the stack but by a
\* closing fence, and a scan that ends in the block state ends without
\* error. Original reading: the unterminated block is then one single Block
\* token from the opening fence to the end of the input.
BlockStep == last.stack # <<>> /\ Top(last.stack) = state("block")
Unterminated == done /\ Top(statestack) = state("block")
IsOpeningFence(s) ==
  re_fence(s, 0, wBEGIN).ok /\ re_fence(s, 0, wBEGIN).end = Len(s)
UnterminatedBlockSingleToken ==
  Unterminated =>
    /\ ~error
    /\ out # <<>>
    /\ LET tok == out[Len(out)]
       IN /\ tok.kind = Block
          /\ tok.offset + Len(tok.text) = Len(text)
          /\ \E e \in 1..Len(tok.text) : IsOpeningFence(SubSeq(tok.text, 1, e))

\* C11 amended: the unterminated block is a run of Block tokens, the opening
\* fence line first, each starting where the one before it ends, the last
\* one ending at the end of the input.
UnterminatedBlock ==
  /\ (BlockStep /\ last.rule # "block_end") => statestack = last.stack
  /\ Unterminated =>
       /\ ~error
       /\ \E k \in 1..Len(out) :
            LET toks == SubSeq(out, k, Len(out))
            IN /\ IsOpeningFence(toks[1].text)
               /\ \A j \in 1..Len(toks) : toks[j].kind = Block /\ InPlace(toks[j])
               /\ Adjacent(toks)
               /\ toks[Len(toks)].offset + Len(toks[Len(toks)].text) = Len(text)

UnterminatedBlockWitness ==
  /\ Unterminated
  /\ Len(out) >= 4
  /\ IsOpeningFence(out[1].text)
  /\ out[Len(out)].text = fX

\* C12 Inline emphasis: in root, where none of the rules listed before the
\* inline ones matches, "=" X "=" with X the shortest non-empty text is
\* three contiguous tokens Markup, Generic.Emph, Markup, and "*" X "*" is
\* Markup, Generic.Strong, Markup; a backslash and the character after it
\* are one String.Escape token, whatever that character is.
RootStep == last.stack = <<state("root")>>
RootSpecific == Len(root) - Len(inline)
InlineEmphasis ==
  RootStep =>
    LET p == last.start
        c == Ch(text, p)
        rootHit == \E i \in 1..RootSpecific : Match(root[i].pat, text, p).ok
        close == Find(text, c, p + 2)
    IN /\ (c = "\\" /\ p + 1 < Len(text)) =>
            /\ last.rule = "escape"
            /\ LastToks = <<Tok(p, StringEscape, Slice(text, p, p + 2))>>
            /\ pos = p + 2
       /\ (c \in {"=", "*"} /\ ~rootHit /\ close # -1) =>
            /\ last.rule = (IF c = "=" THEN "emph" ELSE "strong")
            /\ LastToks =
                 << Tok(p, Markup, <<c>>),
                    Tok(p + 1, IF c = "=" THEN GenericEmph ELSE GenericStrong,
                        Slice(text, p + 1, close)),
                    Tok(close, Markup, <<c>>) >>
            /\ pos = close + 1
       /\ (c \in {"=", "*", "\\"}) => statestack = last.stack

InlineEmphasisWitness ==
  /\ RootStep
  /\ last.rule = "emph"
  /\ last.start = 2
  /\ out[1].kind = StringEscape
  /\ LastToks[2].kind = GenericEmph

\* C13 First-match-wins priority: the rule an iteration applies matches at
\* the cursor and no rule listed before it in the top state's list does;
\* the tokens, the cursor and the stack are that rule's. In root, where the
\* source block pattern matches the source block rule is the one applied,
\* and a line that opens with a BEGIN_ fence goes to one of the two block
\* rules, never to the metadata rule.
RuleIndex(rules, pat) == CHOOSE i \in 1..Len(rules) : rules[i].pat = pat
RuleStep == last.rule \notin {"", "nomatch"}
FirstMatchWins ==
  /\ RuleStep =>
       LET rules == tokens[Top(last.stack)]
           p == last.start
           i == RuleIndex(rules, last.rule)
           m == Match(rules[i].pat, text, p)
       IN /\ m.ok
          /\ \A j \in 1..(i - 1) : ~Match(rules[j].pat, text, p).ok
          /\ LastToks = Emit(rules[i], text, p, m, last.found, last.sub)
          /\ pos = m.end
          /\ statestack = NewStack(last.stack, rules[i].new)
  /\ (RootStep /\ re_source_block(text, last.start).ok) =>
       last.rule = "source_block"
  /\ (RootStep /\ re_fence(text, last.start, wBEGIN).ok) =>
       last.rule \in {"source_block", "block_begin"}

FirstMatchWinsWitness ==
  /\ RootStep
  /\ last.rule = "source_block"
  /\ re_fence(text, last.start, wBEGIN).ok
  /\ re_metadata(text, last.start).ok
  /\ last.n >= 3

\* C14 State-stack shape: the stack is [root], [root, block] or
\* [root, scheduled] before and after every iteration; todo is never on it.
Shapes ==
  { <<state("root")>>,
    <<state("root"), state("block")>>,
    <<state("root"), state("scheduled")>> }
StackShape ==
  /\ statestack \in Shapes
  /\ last.stack # <<>> => last.stack \in Shapes

StackShapeWitness ==
  /\ statestack = <<state("root"), state("scheduled")>>
  /\ \E k \in 1..Len(out) : out[k].text = fENDSRC /\ out[k].offset > 0

\* C15 Block closing by kind: the closing fence that pops the block state
\* names the kind (QUOTE, EXAMPLE, VERSE or SRC) that the opening fence of
\* the block named.
FenceKind(s, prefix) ==
  {i \in 1..Len(BlockWords) :
     Lit(s, RunEnd(s, 0, {" "}) + Len(prefix), BlockWords[i])}
Opener ==
  Max({k \in 1..(Len(out) - 1) : IsOpeningFence(out[k].text)})
BlockClosingByKind ==
  (BlockStep /\ last.rule = "block_end") =>
    FenceKind(LastToks[1].text, wEND) = FenceKind(out[Opener].text, wBEGIN)

\* C16 Block content kinds: the opening fence and every token emitted while
\* the block state is on top of the stack, the closing fence included, have
\* kind Block, whatever rule of root matches at the cursor; a newline
\* consumed in the block state outside a closing fence is a token of its
\* own.
BlockContentKinds ==
  (last.rule = "block_begin" \/ BlockStep) =>
    /\ \A j \in 1..last.n : LastToks[j].kind = Block
    /\ Join(LastToks) = Slice(text, last.start, pos)
    /\ BlockStep => last.rule \in {"block_end", "newline", "words", "any"}
    /\ (/\ BlockStep
        /\ last.rule # "block_end"
        /\ \E q \in last.start..(pos - 1) : Ch(text, q) = "\n") =>
         LastToks = <<Tok(last.start, Block, <<"\n">>)>>

BlockContentKindsWitness ==
  /\ BlockStep
  /\ \E i \in 1..RootSpecific : Match(root[i].pat, text, last.start).ok
  /\ out[Len(out)].kind = Block
  /\ \E k \in 2..Len(out) : out[k] = Tok(out[k].offset, Block, <<"\n">>)

\* C17 Scheduled line lifecycle: an iteration in the scheduled state that
\* consumes a newline yields that newline alone as a Text token and leaves
\* the stack [root]; any other iteration in that state yields Timestamp and
\* Drawer tokens only and leaves the stack as it was. So the state is gone
\* once the line on which it was pushed has ended.
ScheduledStep == last.stack # <<>> /\ Top(last.stack) = state("scheduled")
ScheduledLifecycle ==
  ScheduledStep =>
    IF \E q \in last.start..(pos - 1) : Ch(text, q) = "\n"
    THEN /\ LastToks = <<Tok(last.start, Text, <<"\n">>)>>
         /\ statestack = <<state("root")>>
    ELSE /\ \A j \in 1..last.n : LastToks[j].kind \in {Timestamp, Drawer}
         /\ statestack = last.stack

\* C18 Run rule is a pure optimization: the scan over the table without
\* the run rules gives every character of the input the kind the scanner
\* gives it, and has the scanner's stack at every cursor position the two
\* scans share.
NoRun(rules) == SelectSeq(rules, LAMBDA r : r.pat # "words")
tokens_norun == [s \in States |-> NoRun(tokens[s])]
RECURSIVE Toks(_)
Toks(scan) == IF scan = <<>> THEN <<>> ELSE Head(scan).toks \o Toks(Tail(scan))
RECURSIVE CharKinds(_)
CharKinds(toks) ==
  IF toks = <<>> THEN <<>>
  ELSE [i \in 1..Len(Head(toks).text) |-> Head(toks).kind]
       \o CharKinds(Tail(toks))
RunRuleIsOptimization ==
  done =>
    \A A \in {Scan(tokens, text, registry)} :
    \A B \in {Scan(tokens_norun, text, registry)} :
      /\ Toks(A) = out
      /\ A[Len(A)].stack = statestack
      /\ CharKinds(Toks(B)) = CharKinds(out)
      /\ \A a \in 1..Len(A) : \A b \in 1..Len(B) :
           A[a].off = B[b].off => A[a].stack = B[b].stack

RunRuleIsOptimizationWitness ==
  /\ done
  /\ \E k \in 1..Len(out) : out[k].kind = Drawer /\ Len(out[k].text) >= 2
  /\ Len(Scan(tokens_norun, text, registry)) > Len(out) + 1
  /\ statestack # <<state("root")>>

\* C19 Mandatory fallback in the table: the last rule of every state's list,
\* that of the state on top of the stack and that of every other state the
\* table defines, matches any single character, the newline included, and
\* has no new state.
Probes == {"x", " ", "\n", "*", "#", "<"}
IsFallback(r) ==
  /\ r.new = ""
  /\ \A c \in Probes :
       Match(r.pat, <<c>>, 0).ok /\ Match(r.pat, <<c>>, 0).end = 1
FallbackInEveryState ==
  \A s \in States \cup {Top(statestack)} :
    tokens[s] # <<>> /\ IsFallback(tokens[s][Len(tokens[s])])

\* C20 Line-bounded tokens: a heading, metadata or drawer match ends with
\* the first newline after its start, which is its last token, a Text token
\* of its own; a timestamp match holds no newline; and no token of a
\* planning line other than the newline that ends it holds a newline.
HasNewline(s) == \E i \in 1..Len(s) : s[i] = "\n"
LineBoundedTokens ==
  /\ (RuleStep /\ last.rule \in {"heading", "metadata", "drawer"}) =>
       /\ ~HasNewline(Slice(text, last.start, pos - 1))
       /\ \A j \in 1..(last.n - 1) : ~HasNewline(LastToks[j].text)
       /\ LastToks[last.n] = Tok(pos - 1, Text, <<"\n">>)
  /\ (RuleStep /\ last.rule = "timestamp") =>
       ~HasNewline(Slice(text, last.start, pos))
  /\ ScheduledStep =>
       \A j \in 1..last.n :
         LastToks[j].kind \in {Drawer, Timestamp} =>
           ~HasNewline(LastToks[j].text)

====
